---- MODULE Spec2Model ----
(***************************************************************************)
(* Homing cycle of limits.c: homing_cycle (the pulse generator with its    *)
(* per-axis debounce counters) and limits_go_home (the three passes and    *)
(* the position commit).                                                   *)
(*                                                                         *)
(* An 8-bit register or uint8_t value is the set of its set bits, a subset *)
(* of 0..7: & is \cap, | is \cup, ~ is the complement in 0..7 and ^ is the *)
(* symmetric difference.  A uint32_t value is a pair <<hi, lo>> of 16-bit  *)
(* halves, so that arithmetic modulo 2^32 is computed exactly.             *)
(***************************************************************************)
EXTENDS Integers, Sequences, FiniteSets, TLC

VARIABLES
  pc,                     \* position in limits_go_home / homing_cycle
  pass,                   \* 0: homing_cycle called on its own; 1..3: the call of limits_go_home
  home,                   \* the axes built with HOME_X, HOME_Y, HOME_Z, HOME_C
  settings,               \* pulse_microseconds, invert_mask_stepdir, invert_mask_limit
  sys_position,           \* sys.position[]
  STEPPING_PORT,          \* the output register
  axis,                   \* x_axis, y_axis, z_axis, c_axis
  reverse_direction,
  microseconds_per_pulse,
  step_delay,
  out_bits,
  limit_bits,
  limit_count,            \* x_limit_count, .., c_limit_count
  delay_us,               \* the arguments of the delay_us calls of the current iteration
  limit_env,              \* the values LIMIT_PIN can read in this run
  record,                 \* whether the sample history of a call is kept
  requested,              \* history: the axis arguments of the current call
  hist,                   \* history: the corrected samples of the current call (when record)
  stopped_at,             \* history: per axis, the iteration in which it stopped (when record)
  at_start,               \* history: the axes active at the start of the current iteration
  quiet,                  \* history: per axis, consecutive "not triggered" samples seen while active
  quiet10,                \* history: axes that have shown 10 consecutive "not triggered" samples
  trace,                  \* history: the steps limits_go_home has taken, in order
  LIMIT_PIN,              \* the input register as read in the current iteration
  port_at_entry,          \* history: STEPPING_PORT when the current call was entered
  alone_count,            \* history: per axis, its counter in a call that homes it alone
  alone_active,           \* history: per axis, its flag in a call that homes it alone
  pulse_iters             \* history: per axis, iterations it was active at the pulse (when record)

vars == <<pc, pass, home, settings, sys_position, STEPPING_PORT, axis,
          reverse_direction, microseconds_per_pulse, step_delay, out_bits,
          limit_bits, limit_count, delay_us, limit_env, record, requested, hist,
          stopped_at,
          at_start, quiet, quiet10, trace,
          LIMIT_PIN, port_at_entry, alone_count, alone_active, pulse_iters>>

Axes == {"X", "Y", "Z", "C"}

(***************************************************************************)
(* Bytes as bit sets.                                                      *)
(***************************************************************************)
Bits == 0..7
Not(a) == Bits \ a
Xor(a, b) == (a \ b) \cup (b \ a)

(***************************************************************************)
(* Pin assignment (config.h).                                              *)
(***************************************************************************)
X_STEP_BIT == 0
Y_STEP_BIT == 1
Z_STEP_BIT == 2
C_STEP_BIT == 3
X_LIMIT_BIT == 1
Y_LIMIT_BIT == 2
Z_LIMIT_BIT == 3
C_LIMIT_BIT == 4
STEP_MASK == {X_STEP_BIT, Y_STEP_BIT, Z_STEP_BIT, C_STEP_BIT}
DIRECTION_MASK == {4, 5, 6, 7}
LIMIT_MASK == {X_LIMIT_BIT, Y_LIMIT_BIT, Z_LIMIT_BIT, C_LIMIT_BIT}

StepBit(a) == CASE a = "X" -> X_STEP_BIT [] a = "Y" -> Y_STEP_BIT
                [] a = "Z" -> Z_STEP_BIT [] a = "C" -> C_STEP_BIT
LimitBit(a) == CASE a = "X" -> X_LIMIT_BIT [] a = "Y" -> Y_LIMIT_BIT
                 [] a = "Z" -> Z_LIMIT_BIT [] a = "C" -> C_LIMIT_BIT

(***************************************************************************)
(* uint32_t as <<hi, lo>>, hi and lo in 0..65535.                          *)
(***************************************************************************)
Half == 65536
U32(hi, lo) == <<hi, lo>>
\* a - b modulo 2^32
Sub32(a, b) ==
  LET borrow == IF a[2] < b[2] THEN 1 ELSE 0
  IN  <<(a[1] - b[1] - borrow + Half) % Half, (a[2] - b[2] + Half) % Half>>

(***************************************************************************)
(* homing_cycle, piece by piece.                                           *)
(***************************************************************************)
\* faulty variant: the pulse width is not taken off the period
StepDelay_NoSubtract(period, width) == period

\* uint32_t step_delay = microseconds_per_pulse - settings.pulse_microseconds;
StepDelay(period, width) == Sub32(period, width)

\* out_bits after lines 40-54
SetupOutBits(ax, rev, invert) ==
  LET b0 == DIRECTION_MASK \cup {StepBit(a) : a \in {x \in Axes : ax[x]}}
      b1 == IF rev THEN Xor(b0, DIRECTION_MASK) ELSE b0
  IN  Xor(b1, invert)

\* faulty variant: the direction pins are set with |=, which cannot clear a pin
WriteDirection_OrOnly(port, ob) == port \cup (ob \cap DIRECTION_MASK)

\* STEPPING_PORT = (STEPPING_PORT & ~DIRECTION_MASK) | (out_bits & DIRECTION_MASK);
WriteDirection(port, ob) == (port \cap Not(DIRECTION_MASK)) \cup (ob \cap DIRECTION_MASK)

\* faulty variant: the invert mask is applied only when the cycle is not reversed
CorrectLimitBits_ElseInvert(pin, rev, invert) ==
  IF rev THEN Xor(pin, LIMIT_MASK) ELSE Xor(pin, invert)

\* limit_bits after lines 63-71
CorrectLimitBits(pin, rev, invert) ==
  LET l0 == IF rev THEN Xor(pin, LIMIT_MASK) ELSE pin
  IN  Xor(l0, invert)

\* faulty variant: a "triggered" sample does not reset the counter
DebounceCount_NoReset(a, lb, cnt) ==
  IF LimitBit(a) \notin lb THEN (cnt + 1) % 256 ELSE cnt

\* the counter of axis a after lines 74-79 (uint8_t)
DebounceCount(a, lb, cnt) ==
  IF LimitBit(a) \notin lb THEN (cnt + 1) % 256 ELSE 0

\* faulty variant: the threshold is 9
LimitReached_Nine(cnt) == cnt >= 9

\* faulty variant: the threshold is 11
LimitReached_Eleven(cnt) == cnt >= 11

\* if (x_limit_count >= 10)
LimitReached(cnt) == cnt >= 10

\* faulty variant: one axis reaching the threshold stops every active axis
StopSet_Shared(ax, cnt) ==
  {a \in Axes : ax[a] /\ \E b \in Axes : ax[b] /\ LimitReached(cnt[b])}
\* lines 80, 92, 104, 116: the axes whose counter has reached the threshold
StopSet(ax, cnt) == {a \in Axes : ax[a] /\ LimitReached(cnt[a])}

\* faulty variant: the fourth axis is left out of the test
AllStopped_NoC(ax) == ~(ax["X"] \/ ax["Y"] \/ ax["Z"])

\* if(!(x_axis || y_axis || z_axis || c_axis)) { return; }
AllStopped(ax) == ~(ax["X"] \/ ax["Y"] \/ ax["Z"] \/ ax["C"])

\* STEPPING_PORT = (STEPPING_PORT & ~STEP_MASK) | (out_bits & STEP_MASK);
WriteStep(port, ob) == (port \cap Not(STEP_MASK)) \cup (ob \cap STEP_MASK)

\* faulty variant: the toggle write is not masked with STEP_MASK
TogglePin_Unmasked(port, ob) == Xor(port, ob)

\* STEPPING_PIN = (out_bits & STEP_MASK): a 1 written to a PIN register bit
\* toggles the PORT bit
TogglePin(port, ob) == Xor(port, ob \cap STEP_MASK)

(***************************************************************************)
(* limits_go_home: the arguments of its three homing_cycle calls.          *)
(***************************************************************************)
\* faulty variant: the second approach pass takes every homed axis, Z included
PassAxes_ZTwice(p, h) ==
  CASE p = 1 -> [a \in Axes |-> a = "Z" /\ a \in h]
    [] p = 2 -> [a \in Axes |-> a \in h]
    [] p = 3 -> [a \in Axes |-> a \in h]

\* the axis arguments of call p (lines 168, 169, 171)
PassAxes(p, h) ==
  CASE p = 1 -> [a \in Axes |-> a = "Z" /\ a \in h]
    [] p = 2 -> [a \in Axes |-> a \in {"X", "Y", "C"} /\ a \in h]
    [] p = 3 -> [a \in Axes |-> a \in h]

\* approach_limit_switch passes false, leave_limit_switch passes true
PassReverse(p) == p = 3

\* FEEDRATE_TO_PERIOD_US(f), converted to uint32_t: the rates and the
\* resolution are whole numbers here and the quotient is truncated
FeedrateToPeriodUs(f, steps_per_mm) ==
  LET us == 60000000 \div (f * steps_per_mm) IN U32(us \div Half, us % Half)

\* approach passes use default_seek_rate, the retreat pass default_feed_rate
PassPeriod(p, s) ==
  FeedrateToPeriodUs(IF p = 3 THEN s.default_feed_rate ELSE s.default_seek_rate,
                     s.steps_per_mm_x)

\* where homing_cycle returns to
ReturnTo(p) ==
  CASE p = 0 -> "hc_returned"
    [] p = 1 -> "gh_approach_xyc"
    [] p = 2 -> "gh_leave"
    [] p = 3 -> "gh_commit"

(***************************************************************************)
(* Bounds and input sets.                                                  *)
(***************************************************************************)
MaxIter == 11

\* the values LIMIT_PIN can read.  PairPins: the switches of p and q move
\* together, and those of r and s, so that every axis sees every sample
\* sequence and the two pairs are independent of each other.  TriPins: X and
\* Y move freely, Z and C together.
PairPins(p, q, r, s) ==
  {{}, {LimitBit(p), LimitBit(q)}, {LimitBit(r), LimitBit(s)}, LIMIT_MASK}
TriPins == {pin \in SUBSET LIMIT_MASK : Z_LIMIT_BIT \in pin <=> C_LIMIT_BIT \in pin}
Env1 == PairPins("X", "Z", "Y", "C")
Env2 == PairPins("X", "Y", "Z", "C")
Env3 == {pin \cup {7} : pin \in PairPins("X", "C", "Y", "Z")}
TiedPins == {{}, LIMIT_MASK}

\* configurations: step/direction invert mask, limit invert mask, the limit
\* inputs, the direction lines before the call, pulse period and pulse width
Config(sdinv, liminv, env, dirs, period, width) ==
  [sdinv |-> sdinv, liminv |-> liminv, env |-> env, dirs |-> dirs,
   period |-> period, width |-> width]
CycleConfigs ==
  { Config({}, {}, TriPins, {}, U32(0, 7500), U32(0, 10)),
    Config({Y_STEP_BIT}, {X_LIMIT_BIT, C_LIMIT_BIT}, Env2, DIRECTION_MASK,
           U32(1, 4464), U32(0, 30)),
    Config({X_STEP_BIT, Z_STEP_BIT, 5, 7}, LIMIT_MASK, Env3, {4, 5},
           U32(0, 5), U32(0, 10)),
    Config(STEP_MASK \cup {4}, {Z_LIMIT_BIT}, Env1, {6},
           U32(0, 10), U32(0, 10)),
    Config(DIRECTION_MASK, {}, TiedPins, {5}, U32(65535, 65535), U32(65535, 0)) }
Zero32 == U32(0, 0)
NoAxis == [a \in Axes |-> FALSE]
ZeroCount == [a \in Axes |-> 0]

\* the step lines rest at their idle level, the invert bit of each
IdlePort(invert, dirs) == (invert \cap STEP_MASK) \cup (dirs \cap DIRECTION_MASK)

Settings(width, sdinv, liminv, seek, feed, steps) ==
  [pulse_microseconds |-> width, invert_mask_stepdir |-> sdinv,
   invert_mask_limit |-> liminv, default_seek_rate |-> seek,
   default_feed_rate |-> feed, steps_per_mm_x |-> steps]

\* an entry of trace
Event(op, p, ax, rev) == [op |-> op, pass |-> p, axes |-> ax, reverse |-> rev]
Plain(op) == Event(op, 0, {}, FALSE)

\* the locals of homing_cycle and the history before any call
InitLocals ==
  /\ step_delay = Zero32
  /\ out_bits = {}
  /\ limit_bits = {}
  /\ limit_count = ZeroCount
  /\ delay_us = <<>>
  /\ hist = <<>>
  /\ stopped_at = ZeroCount
  /\ at_start = NoAxis
  /\ quiet = ZeroCount
  /\ quiet10 = {}
  /\ trace = <<>>
  /\ LIMIT_PIN = {}
  /\ port_at_entry = {}
  /\ alone_count = ZeroCount
  /\ alone_active = NoAxis
  /\ pulse_iters = ZeroCount

(***************************************************************************)
(* homing_cycle.                                                           *)
(***************************************************************************)
\* lines 39-60
Setup ==
  /\ pc = "hc_setup"
  /\ step_delay' = StepDelay(microseconds_per_pulse, settings.pulse_microseconds)
  /\ out_bits' = SetupOutBits(axis, reverse_direction, settings.invert_mask_stepdir)
  /\ STEPPING_PORT' = WriteDirection(STEPPING_PORT, out_bits')
  /\ limit_count' = ZeroCount
  /\ pc' = "hc_sample"
  /\ hist' = <<>>
  /\ stopped_at' = ZeroCount
  /\ at_start' = NoAxis
  /\ quiet' = ZeroCount
  /\ quiet10' = {}
  /\ port_at_entry' = STEPPING_PORT
  /\ alone_count' = ZeroCount
  /\ alone_active' = axis
  /\ pulse_iters' = ZeroCount
  /\ UNCHANGED <<pass, home, settings, sys_position, axis, reverse_direction,
                 microseconds_per_pulse, limit_bits, delay_us, limit_env, record,
                 requested, trace,
                 LIMIT_PIN>>

\* lines 63-120: one sample of LIMIT_PIN and the four debounce blocks
Sample ==
  /\ pc = "hc_sample"
  /\ record => Len(hist) < MaxIter
  /\ \E pin \in limit_env :
       LET lb   == CorrectLimitBits(pin, reverse_direction, settings.invert_mask_limit)
           cnt  == [a \in Axes |-> IF axis[a] THEN DebounceCount(a, lb, limit_count[a])
                                             ELSE limit_count[a]]
           stop == StopSet(axis, cnt)
           own  == [a \in Axes |-> IF alone_active[a]
                                   THEN DebounceCount(a, lb, alone_count[a])
                                   ELSE alone_count[a]]
           q    == [a \in Axes |-> IF ~axis[a] THEN quiet[a]
                                   ELSE IF LimitBit(a) \in lb THEN 0
                                   ELSE IF quiet[a] < 10 THEN quiet[a] + 1 ELSE 10]
       IN  /\ LIMIT_PIN' = pin
           /\ limit_bits' = lb
           /\ alone_count' = own
           /\ alone_active' = [a \in Axes |-> alone_active[a] /\ ~LimitReached(own[a])]
           /\ limit_count' = cnt
           /\ axis' = [a \in Axes |-> axis[a] /\ a \notin stop]
           /\ out_bits' = Xor(out_bits, {StepBit(a) : a \in stop})
           /\ at_start' = axis
           /\ delay_us' = <<>>
           /\ quiet' = q
           /\ quiet10' = quiet10 \cup {a \in Axes : axis[a] /\ q[a] = 10}
           /\ hist' = IF record THEN Append(hist, lb) ELSE hist
           /\ stopped_at' = IF record
                            THEN [a \in Axes |-> IF a \in stop THEN Len(hist) + 1
                                                 ELSE stopped_at[a]]
                            ELSE stopped_at
  /\ pc' = "hc_check"
  /\ UNCHANGED <<pass, home, settings, sys_position, STEPPING_PORT,
                 reverse_direction, microseconds_per_pulse, step_delay,
                 limit_env, record, requested, trace,
                 port_at_entry, pulse_iters>>

\* line 123, all axes stopped: return
Return ==
  /\ pc = "hc_check"
  /\ AllStopped(axis)
  /\ pc' = ReturnTo(pass)
  /\ trace' = IF pass = 0 THEN trace ELSE Append(trace, Event("return", pass, {}, FALSE))
  /\ UNCHANGED <<pass, home, settings, sys_position, STEPPING_PORT, axis,
                 reverse_direction, microseconds_per_pulse, step_delay, out_bits,
                 limit_bits, limit_count, delay_us, limit_env, record, requested,
                 hist, stopped_at, at_start, quiet, quiet10,
                 LIMIT_PIN, port_at_entry, alone_count, alone_active, pulse_iters>>

\* faulty variant: the pulse is written before the test of line 123
Pulse_Unguarded ==
  /\ pc = "hc_check"
  /\ STEPPING_PORT' = WriteStep(STEPPING_PORT, out_bits)
  /\ delay_us' = Append(delay_us, settings.pulse_microseconds)
  /\ pulse_iters' = IF record
                    THEN [a \in Axes |-> IF axis[a] THEN pulse_iters[a] + 1
                                         ELSE pulse_iters[a]]
                    ELSE pulse_iters
  /\ pc' = "hc_toggle"
  /\ UNCHANGED <<pass, home, settings, sys_position, axis, reverse_direction,
                 microseconds_per_pulse, step_delay, out_bits, limit_bits,
                 limit_count, limit_env, record, requested, hist, stopped_at,
                 at_start, quiet, quiet10, trace,
                 LIMIT_PIN, port_at_entry, alone_count, alone_active>>

\* lines 123-127, some axis still active: the step-port write and the pulse delay
Pulse ==
  /\ pc = "hc_check"
  /\ ~AllStopped(axis)
  /\ STEPPING_PORT' = WriteStep(STEPPING_PORT, out_bits)
  /\ delay_us' = Append(delay_us, settings.pulse_microseconds)
  /\ pulse_iters' = IF record
                    THEN [a \in Axes |-> IF axis[a] THEN pulse_iters[a] + 1
                                         ELSE pulse_iters[a]]
                    ELSE pulse_iters
  /\ pc' = "hc_toggle"
  /\ UNCHANGED <<pass, home, settings, sys_position, axis, reverse_direction,
                 microseconds_per_pulse, step_delay, out_bits, limit_bits,
                 limit_count, limit_env, record, requested, hist, stopped_at,
                 at_start, quiet, quiet10, trace,
                 LIMIT_PIN, port_at_entry, alone_count, alone_active>>

\* lines 128-129: the toggle write and the rest of the period
EndPulse ==
  /\ pc = "hc_toggle"
  /\ STEPPING_PORT' = TogglePin(STEPPING_PORT, out_bits)
  /\ delay_us' = Append(delay_us, step_delay)
  /\ pc' = "hc_sample"
  /\ UNCHANGED <<pass, home, settings, sys_position, axis, reverse_direction,
                 microseconds_per_pulse, step_delay, out_bits, limit_bits,
                 limit_count, limit_env, record, requested, hist, stopped_at,
                 at_start, quiet, quiet10, trace,
                 LIMIT_PIN, port_at_entry, alone_count, alone_active, pulse_iters>>

HomingCycle == Setup \/ Sample \/ Return \/ Pulse \/ EndPulse

(***************************************************************************)
(* homing_cycle on its own: every argument combination.                    *)
(***************************************************************************)
InitCycle ==
  /\ pc = "hc_setup"
  /\ pass = 0
  /\ home = {}
  /\ \E c \in CycleConfigs :
       /\ settings = Settings(c.width, c.sdinv, c.liminv, 100, 50, 80)
       /\ STEPPING_PORT = IdlePort(c.sdinv, c.dirs)
       /\ microseconds_per_pulse = c.period
       /\ limit_env = c.env
  /\ sys_position = [a \in Axes |-> 0]
  /\ axis \in [Axes -> BOOLEAN]
  /\ requested = axis
  /\ reverse_direction \in BOOLEAN
  /\ record = FALSE
  /\ InitLocals

SpecCycle == InitCycle /\ [][HomingCycle]_vars

(***************************************************************************)
(* homing_cycle on its own, with the samples of the call recorded: the     *)
(* four limit inputs move together, and the limit invert mask makes the    *)
(* corrected bits of some axes the complement of the others.               *)
(***************************************************************************)
HistCall(ax, rev, liminv) == [axes |-> ax, rev |-> rev, liminv |-> liminv]
HistCalls ==
  { HistCall({"X"}, FALSE, {}),
    HistCall({"X", "Y"}, TRUE, {Y_LIMIT_BIT, C_LIMIT_BIT}),
    HistCall(Axes, FALSE, {Y_LIMIT_BIT, C_LIMIT_BIT}) }

InitHist ==
  /\ pc = "hc_setup"
  /\ pass = 0
  /\ home = {}
  /\ \E c \in HistCalls :
       /\ settings = Settings(U32(0, 10), {}, c.liminv, 100, 50, 80)
       /\ axis = [a \in Axes |-> a \in c.axes]
       /\ reverse_direction = c.rev
  /\ STEPPING_PORT = IdlePort({}, {})
  /\ microseconds_per_pulse = U32(0, 7500)
  /\ limit_env = TiedPins
  /\ sys_position = [a \in Axes |-> 0]
  /\ requested = axis
  /\ record = TRUE
  /\ InitLocals

SpecHist == InitHist /\ [][HomingCycle]_vars

(***************************************************************************)
(* Lines 63-79 on their own: one raw sample of LIMIT_PIN, corrected and    *)
(* fed to the four counters, for every raw sample, every limit invert mask *)
(* and both directions.  The counters start from a value in mid-count.     *)
(***************************************************************************)
LimitInverts == {m \cup e : m \in SUBSET LIMIT_MASK, e \in {{}, {0, 7}}}
MidCount == [a \in Axes |-> 3]

InitCorrect ==
  /\ pc = "lb_raw"
  /\ pass = 0
  /\ home = {}
  /\ \E inv \in LimitInverts :
       settings = Settings(U32(0, 10), {}, inv, 100, 50, 80)
  /\ STEPPING_PORT = IdlePort({}, {})
  /\ microseconds_per_pulse = U32(0, 7500)
  /\ limit_env = SUBSET Bits
  /\ sys_position = [a \in Axes |-> 0]
  /\ axis = [a \in Axes |-> TRUE]
  /\ requested = axis
  /\ reverse_direction \in BOOLEAN
  /\ record = FALSE
  /\ step_delay = Zero32
  /\ out_bits = {}
  /\ limit_bits = {}
  /\ limit_count = MidCount
  /\ delay_us = <<>>
  /\ hist = <<>>
  /\ stopped_at = ZeroCount
  /\ at_start = axis
  /\ quiet = ZeroCount
  /\ quiet10 = {}
  /\ trace = <<>>
  /\ LIMIT_PIN = {}
  /\ port_at_entry = {}
  /\ alone_count = ZeroCount
  /\ alone_active = NoAxis
  /\ pulse_iters = ZeroCount

\* lines 63-79
CorrectSample ==
  /\ pc = "lb_raw"
  /\ \E pin \in limit_env :
       /\ LIMIT_PIN' = pin
       /\ limit_bits' = CorrectLimitBits(pin, reverse_direction,
                                         settings.invert_mask_limit)
  /\ limit_count' = [a \in Axes |-> DebounceCount(a, limit_bits', limit_count[a])]
  /\ pc' = "lb_done"
  /\ UNCHANGED <<pass, home, settings, sys_position, STEPPING_PORT, axis,
                 reverse_direction, microseconds_per_pulse, step_delay, out_bits,
                 delay_us, limit_env, record, requested, hist, stopped_at,
                 at_start, quiet, quiet10, trace, port_at_entry, alone_count,
                 alone_active, pulse_iters>>

SpecCorrect == InitCorrect /\ [][CorrectSample]_vars

(***************************************************************************)
(* limits_go_home.                                                         *)
(***************************************************************************)
\* sys.position[X_AXIS] = sys.position[Y_AXIS] = sys.position[Z_AXIS] = sys.position[C_AXIS] = 0;
CommitPosition(pos, h) == [a \in Axes |-> 0]

\* line 150
PlanSynchronize ==
  /\ pc = "gh_start"
  /\ pc' = "gh_enable"
  /\ trace' = Append(trace, Plain("plan_synchronize"))
  /\ UNCHANGED <<pass, home, settings, sys_position, STEPPING_PORT, axis,
                 reverse_direction, microseconds_per_pulse, step_delay, out_bits,
                 limit_bits, limit_count, delay_us, limit_env, record, requested,
                 hist, stopped_at, at_start, quiet, quiet10,
                 LIMIT_PIN, port_at_entry, alone_count, alone_active, pulse_iters>>

\* line 152
StEnable ==
  /\ pc = "gh_enable"
  /\ pc' = "gh_approach_z"
  /\ trace' = Append(trace, Plain("st_enable"))
  /\ UNCHANGED <<pass, home, settings, sys_position, STEPPING_PORT, axis,
                 reverse_direction, microseconds_per_pulse, step_delay, out_bits,
                 limit_bits, limit_count, delay_us, limit_env, record, requested,
                 hist, stopped_at, at_start, quiet, quiet10,
                 LIMIT_PIN, port_at_entry, alone_count, alone_active, pulse_iters>>

\* the call of homing_cycle number p, made from position at
Call(p, at) ==
  /\ pc = at
  /\ pass' = p
  /\ axis' = PassAxes(p, home)
  /\ requested' = axis'
  /\ reverse_direction' = PassReverse(p)
  /\ microseconds_per_pulse' = PassPeriod(p, settings)
  /\ pc' = "hc_setup"
  /\ trace' = Append(trace, Event("homing_cycle", p, {a \in Axes : axis'[a]},
                                  reverse_direction'))
  /\ UNCHANGED <<home, settings, sys_position, STEPPING_PORT, step_delay,
                 out_bits, limit_bits, limit_count, delay_us, limit_env, record,
                 hist, stopped_at, at_start, quiet, quiet10,
                 LIMIT_PIN, port_at_entry, alone_count, alone_active, pulse_iters>>

\* line 168
ApproachZ == Call(1, "gh_approach_z")
\* line 169
ApproachXYC == Call(2, "gh_approach_xyc")
\* line 171
Leave == Call(3, "gh_leave")

\* line 174
Commit ==
  /\ pc = "gh_commit"
  /\ sys_position' = CommitPosition(sys_position, home)
  /\ pc' = "gh_done"
  /\ trace' = Append(trace, Plain("commit"))
  /\ UNCHANGED <<pass, home, settings, STEPPING_PORT, axis, reverse_direction,
                 microseconds_per_pulse, step_delay, out_bits, limit_bits,
                 limit_count, delay_us, limit_env, record, requested, hist,
                 stopped_at, at_start, quiet, quiet10,
                 LIMIT_PIN, port_at_entry, alone_count, alone_active, pulse_iters>>

GoHomeConfigs ==
  { Config({}, {}, Env1, {}, <<100, 50, 80>>, U32(0, 10)),
    Config({Y_STEP_BIT, 6}, {X_LIMIT_BIT, C_LIMIT_BIT}, Env2, DIRECTION_MASK,
           <<500, 25, 200>>, U32(0, 30)) }

\* the machine position before homing
Position0 == [a \in Axes |-> CASE a = "X" -> 120 [] a = "Y" -> -45
                               [] a = "Z" -> 7 [] a = "C" -> 90]

Init ==
  /\ pc = "gh_start"
  /\ pass = 0
  /\ home \in SUBSET Axes
  /\ \E c \in GoHomeConfigs :
       /\ settings = Settings(c.width, c.sdinv, c.liminv, c.period[1],
                              c.period[2], c.period[3])
       /\ STEPPING_PORT = IdlePort(c.sdinv, c.dirs)
       /\ limit_env = c.env
  /\ sys_position = Position0
  /\ axis = NoAxis
  /\ requested = NoAxis
  /\ reverse_direction = FALSE
  /\ microseconds_per_pulse = Zero32
  /\ record = FALSE
  /\ InitLocals

Next ==
  \/ PlanSynchronize
  \/ StEnable
  \/ ApproachZ
  \/ ApproachXYC
  \/ Leave
  \/ Commit
  \/ HomingCycle

Spec == Init /\ [][Next]_vars

(***************************************************************************)
(* limits_go_home as a program that keeps running: the single thread takes *)
(* its next step whenever it has one.  The limit inputs move together.     *)
(***************************************************************************)
InitLive ==
  /\ pc = "gh_start"
  /\ pass = 0
  /\ home \in SUBSET Axes
  /\ settings = Settings(U32(0, 10), {}, {X_LIMIT_BIT, C_LIMIT_BIT}, 100, 50, 80)
  /\ STEPPING_PORT = IdlePort({}, {})
  /\ limit_env = TiedPins
  /\ sys_position = Position0
  /\ axis = NoAxis
  /\ requested = NoAxis
  /\ reverse_direction = FALSE
  /\ microseconds_per_pulse = Zero32
  /\ record = FALSE
  /\ InitLocals

SpecLive == InitLive /\ [][Next]_vars /\ WF_vars(Next)

(***************************************************************************)
(* Properties.                                                             *)
(***************************************************************************)
InLoop == pc \in {"hc_sample", "hc_check", "hc_toggle"}
Returned == pc = ReturnTo(pass)
Level(port, a) == StepBit(a) \in port
\* the step line of a is at its active level, the opposite of its invert bit
Asserted(a) == Level(STEPPING_PORT, a) # (StepBit(a) \in settings.invert_mask_stepdir)
\* on <<hi, lo>> pairs: a <= b, a + b modulo 2^32, and the carry out of bit 31
Leq32(a, b) == a[1] < b[1] \/ (a[1] = b[1] /\ a[2] <= b[2])
Add32(a, b) ==
  LET lo == a[2] + b[2]
      hi == a[1] + b[1] + (lo \div Half)
  IN  <<hi % Half, lo % Half>>
Carry32(a, b) == (a[1] + b[1] + ((a[2] + b[2]) \div Half)) \div Half

\* C1: during a call of homing_cycle the level of the step line of an axis
\* that was not requested never changes: neither the step-port write nor the
\* toggle write emits a pulse on it.
C1_NoPulseOutsideS ==
  [][(pc \in {"hc_check", "hc_toggle"}) =>
       \A a \in Axes : ~requested[a] =>
          Level(STEPPING_PORT', a) = Level(STEPPING_PORT, a)]_vars

\* C2: homing_cycle has returned only if every requested axis has its counter
\* at 10 and its flag cleared; while a requested axis is active the call is
\* still in its loop.
C2_ReturnsOnlyWhenAllStopped ==
  /\ Returned => \A a \in Axes : requested[a] => (limit_count[a] = 10 /\ ~axis[a])
  /\ (\E a \in Axes : requested[a] /\ axis[a]) => (pc = "hc_setup" \/ InLoop)

C2_Witness ==
  /\ pc = "hc_returned"
  /\ \A a \in Axes : requested[a]

\* C3: in every loop iteration the counter of an active axis becomes 0 when
\* its corrected limit bit is set and its previous value plus 1 when the bit
\* is clear, and the axis is stopped in the iteration iff its counter reaches
\* 10 there for the first time.
C3_Debounce ==
  [][pc = "hc_sample" =>
       \A a \in Axes : axis[a] =>
          /\ LimitBit(a) \in limit_bits' => limit_count'[a] = 0
          /\ LimitBit(a) \notin limit_bits' => limit_count'[a] = limit_count[a] + 1
          /\ ~axis'[a] <=> (limit_count'[a] = 10 /\ limit_count[a] < 10)]_vars

C3_Witness ==
  /\ pc = "hc_check"
  /\ \E a, b \in Axes :
       /\ at_start[a] /\ ~axis[a] /\ limit_count[a] = 10
       /\ axis[b] /\ LimitBit(b) \in limit_bits /\ limit_count[b] = 0

\* C4: the sample history of a call.  Clear(n, a): sample n reads "not
\* triggered" for a; Window(n, a): samples n-9..n all do.
Clear(n, a) == LimitBit(a) \notin hist[n]
Window(n, a) == n >= 10 /\ \A i \in (n - 9)..n : Clear(i, a)

\* C4: a requested axis stops at iteration n iff samples n-9..n all read "not
\* triggered" and no earlier iteration ends such a window; after 9 "not
\* triggered" samples and a "triggered" one the counter is 0 and the axis is
\* still active.
C4_StopsAtFirstWindow ==
  record =>
    \A a \in Axes : requested[a] =>
       /\ \A n \in 1..Len(hist) :
            (stopped_at[a] = n) <=>
               (Window(n, a) /\ \A m \in 1..(n - 1) : ~Window(m, a))
       /\ (Len(hist) = 10 /\ (\A i \in 1..9 : Clear(i, a)) /\ ~Clear(10, a))
             => (limit_count[a] = 0 /\ axis[a])

\* X stopped at iteration 10, the loop went on for another axis, and sample 11
\* ends a second window for X
C4_Witness ==
  /\ record
  /\ Len(hist) = 11
  /\ requested["X"] /\ stopped_at["X"] = 10 /\ Window(11, "X")
  /\ \E b \in Axes : axis[b]

\* C5: when limits_go_home is done the position of every homed axis is 0 and
\* the position of every other axis is what it was before the call.
C5_OnlyHomedAxesZeroed ==
  pc = "gh_done" =>
     \A a \in Axes : sys_position[a] = IF a \in home THEN 0 ELSE Position0[a]

\* C6: the steps limits_go_home takes, in the order it takes them
FixedOrder(h) ==
  << Plain("plan_synchronize"),
     Plain("st_enable"),
     Event("homing_cycle", 1, h \cap {"Z"}, FALSE),
     Event("return", 1, {}, FALSE),
     Event("homing_cycle", 2, h \cap {"X", "Y", "C"}, FALSE),
     Event("return", 2, {}, FALSE),
     Event("homing_cycle", 3, h, TRUE),
     Event("return", 3, {}, FALSE),
     Plain("commit") >>

\* C6: limits_go_home takes its steps in one order: plan_synchronize,
\* st_enable, the approach of Z alone, the approach of the homed axes among
\* X, Y, C, the retreat of all homed axes, the commit; each call starts after
\* the one before has returned, and the position is written only by the
\* commit, after the retreat has returned.
C6_FixedOrder ==
  /\ Len(trace) <= Len(FixedOrder(home))
  /\ trace = SubSeq(FixedOrder(home), 1, Len(trace))
  /\ pc = "gh_done" <=> Len(trace) = Len(FixedOrder(home))
  /\ (pc = "hc_setup" \/ InLoop) =>
        /\ trace[Len(trace)].op = "homing_cycle"
        /\ trace[Len(trace)].axes = {a \in Axes : requested[a]}
        /\ trace[Len(trace)].reverse = reverse_direction
  /\ sys_position # Position0 => trace[Len(trace)].op = "commit"

C6_Witness ==
  /\ pc = "gh_done"
  /\ home = Axes

\* C7: from the setup on, the direction bits of the stepping port are
\* DIRECTION_MASK xor (DIRECTION_MASK if reversed) xor invert_mask_stepdir,
\* within DIRECTION_MASK, whatever axes are active, and stay so for the whole
\* loop.
C7_DirectionBits ==
  (InLoop \/ pc = "hc_returned") =>
     STEPPING_PORT \cap DIRECTION_MASK =
       Xor(Xor(DIRECTION_MASK, IF reverse_direction THEN DIRECTION_MASK ELSE {}),
           settings.invert_mask_stepdir) \cap DIRECTION_MASK

C7_Witness ==
  /\ pc = "hc_toggle"
  /\ reverse_direction
  /\ settings.invert_mask_stepdir \cap DIRECTION_MASK \notin {{}, DIRECTION_MASK}
  /\ \E a, b \in Axes : axis[a] /\ requested[b] /\ ~axis[b]

\* C8: in every loop iteration an axis that was active at the start of the
\* iteration gets exactly one pulse: the iteration does not end in a return,
\* its step line is asserted by the step-port write and de-asserted by the
\* toggle write.
C8_OnePulsePerIteration ==
  \A a \in Axes : at_start[a] =>
     /\ ~Returned
     /\ pc = "hc_check" => ~Asserted(a)
     /\ pc = "hc_toggle" => Asserted(a)
     /\ pc = "hc_sample" => ~Asserted(a)

\* C9 as stated: the two delays of an iteration are the pulse width and the
\* period less the pulse width, and add up to exactly the period.
C9_DelaysSumToPeriod ==
  Len(delay_us) = 2 =>
     /\ delay_us[1] = settings.pulse_microseconds
     /\ Add32(delay_us[1], delay_us[2]) = microseconds_per_pulse
     /\ Carry32(delay_us[1], delay_us[2]) = 0

\* C9 amended: the first delay is the pulse width and the second is the period
\* less the pulse width modulo 2^32; they add up to exactly the period when the
\* pulse width is at most the period, and to the period plus 2^32 otherwise.
C9_DelaysSumModulo ==
  /\ Len(delay_us) >= 1 => delay_us[1] = settings.pulse_microseconds
  /\ Len(delay_us) = 2 =>
       /\ Add32(delay_us[1], delay_us[2]) = microseconds_per_pulse
       /\ Carry32(delay_us[1], delay_us[2]) =
            IF Leq32(settings.pulse_microseconds, microseconds_per_pulse) THEN 0 ELSE 1

C9_Witness ==
  /\ microseconds_per_pulse = U32(0, 7500)
  /\ delay_us = <<U32(0, 10), U32(0, 7490)>>

\* C10: AllQuiet(p): in call p every requested axis has read "not triggered"
\* on 10 consecutive samples while it was active.
AllQuiet(p) == pass = p /\ InLoop /\ \A a \in Axes : requested[a] => a \in quiet10

\* C10: once every requested axis of a call has read "not triggered" on 10
\* consecutive samples the call returns; if that happens in each call that is
\* begun, limits_go_home reaches the commit; and a call has returned, or the
\* position been committed, only after every requested axis of the call read
\* 10 consecutive "not triggered" samples.
C10_Termination ==
  /\ \A p \in 1..3 : AllQuiet(p) ~> (pc = ReturnTo(p))
  /\ (\A p \in 1..3 : (pass = p /\ pc = "hc_setup") ~> AllQuiet(p))
        => <>(pc = "gh_done")
  /\ []((pass \in 1..3 /\ pc \in {ReturnTo(pass), "gh_done"}) =>
          \A a \in Axes : requested[a] => a \in quiet10)
  /\ [](sys_position # Position0 => pc = "gh_done")

C10_Witness ==
  /\ pc = "gh_done"
  /\ home = Axes
  /\ quiet10 = Axes

\* C11: once a requested axis has stopped, the two port writes of that
\* iteration and of every later iteration of the call leave its step line
\* at the same level, while the toggle write of each iteration changes the
\* level of the step line of every axis that is still active.
C11_StoppedAxisNotPulsed ==
  [][(pc \in {"hc_check", "hc_toggle"}) =>
       \A a \in Axes :
          /\ (requested[a] /\ ~axis[a]) =>
                Level(STEPPING_PORT', a) = Level(STEPPING_PORT, a)
          /\ (pc = "hc_toggle" /\ axis[a]) =>
                Level(STEPPING_PORT', a) # Level(STEPPING_PORT, a)]_vars

\* the step lines on which the two ports differ
Flipped(p, q) == {a \in Axes : Level(p, a) # Level(q, a)}

\* C12: the toggle write of an iteration changes the level of exactly the
\* step lines of the axes that are still active, and those are the lines the
\* assert write has put at their active level; after it every active axis
\* has its step line at idle.
C12_ToggleUndoesAssert ==
  [][(pc = "hc_toggle") =>
       /\ Flipped(STEPPING_PORT, STEPPING_PORT') = {a \in Axes : axis[a]}
       /\ \A a \in Axes : axis[a] =>
             /\ Asserted(a)
             /\ ~(Level(STEPPING_PORT', a) # (StepBit(a) \in settings.invert_mask_stepdir))]_vars

\* C13: in the iteration in which the last active axis stops, homing_cycle
\* returns at once, the step port as it was and no delay made; sampling
\* itself writes nothing.  A call with no axis requested never reaches the
\* port writes: it makes no delay and leaves the step lines as they were
\* when it was entered.
C13_ReturnWithoutPulse ==
  [][/\ (pc = "hc_sample") => STEPPING_PORT' = STEPPING_PORT /\ delay_us' = <<>>
     /\ (pc = "hc_check" /\ \A a \in Axes : ~axis[a]) =>
           /\ pc' = ReturnTo(pass)
           /\ STEPPING_PORT' = STEPPING_PORT
           /\ delay_us' = <<>>
     /\ (requested' = NoAxis /\ pc' \in {"hc_sample", "hc_check", "hc_toggle",
                                         ReturnTo(pass')}) =>
           /\ pc' # "hc_toggle"
           /\ delay_us' = <<>>
           /\ STEPPING_PORT' \cap STEP_MASK = port_at_entry' \cap STEP_MASK
           /\ pc' = "hc_check" => at_start' = NoAxis]_vars

\* homing_cycle has returned in the iteration in which Y, the last of the two
\* requested axes, stopped
C13_Witness ==
  /\ Returned
  /\ requested = [a \in Axes |-> a \in {"X", "Y"}]
  /\ at_start = [a \in Axes |-> a = "Y"]
  /\ limit_count["Y"] = 10
  /\ delay_us = <<>>

\* C14: the setup write changes no bit outside DIRECTION_MASK, the assert and
\* toggle writes change no bit outside STEP_MASK, and no other step writes
\* the port; so in the loop the direction bits stay as set up, and a bit
\* outside both masks is as it was when the call was entered.
C14_MaskedWrites ==
  [][/\ (pc = "hc_setup") => Xor(STEPPING_PORT, STEPPING_PORT') \subseteq DIRECTION_MASK
     /\ (pc \in {"hc_check", "hc_toggle"}) =>
           Xor(STEPPING_PORT, STEPPING_PORT') \subseteq STEP_MASK
     /\ (pc \notin {"hc_setup", "hc_check", "hc_toggle"}) =>
           STEPPING_PORT' = STEPPING_PORT
     /\ InLoop =>
           STEPPING_PORT' \cap DIRECTION_MASK = out_bits \cap DIRECTION_MASK
     /\ (pc' \in {"hc_sample", "hc_check", "hc_toggle", ReturnTo(pass')}) =>
           STEPPING_PORT' \ (STEP_MASK \cup DIRECTION_MASK) =
             port_at_entry' \ (STEP_MASK \cup DIRECTION_MASK)]_vars

\* a pulse is asserted in the fourth iteration or later, the setup having
\* changed direction bits
C14_Witness ==
  /\ pc = "hc_toggle"
  /\ \E a \in Axes : limit_count[a] >= 3
  /\ STEPPING_PORT \cap STEP_MASK # port_at_entry \cap STEP_MASK
  /\ STEPPING_PORT \cap DIRECTION_MASK # port_at_entry \cap DIRECTION_MASK
  /\ STEPPING_PORT \cap DIRECTION_MASK = out_bits \cap DIRECTION_MASK

\* the corrected bits of an approach for the raw sample and invert mask
ApproachBits == Xor(LIMIT_PIN, settings.invert_mask_limit) \cap LIMIT_MASK

\* C15: for one raw sample and one invert mask, the corrected limit bits of
\* a retreat are the complement within LIMIT_MASK of those of an approach,
\* so a retreat counts up exactly the axes on which an approach would reset
\* and resets exactly those on which an approach would count up; applying
\* the invert mask twice gives the raw sample back.
C15_RetreatIsComplement ==
  (pc = "lb_done") =>
    /\ limit_bits \cap LIMIT_MASK =
         (IF reverse_direction THEN LIMIT_MASK \ ApproachBits ELSE ApproachBits)
    /\ CorrectLimitBits(LIMIT_PIN, ~reverse_direction, settings.invert_mask_limit)
         \cap LIMIT_MASK = LIMIT_MASK \ limit_bits
    /\ \A a \in Axes :
         /\ limit_count[a] \in {0, MidCount[a] + 1}
         /\ (limit_count[a] = 0) <=>
              (IF reverse_direction THEN LimitBit(a) \notin ApproachBits
                                    ELSE LimitBit(a) \in ApproachBits)
    /\ Xor(Xor(LIMIT_PIN, settings.invert_mask_limit), settings.invert_mask_limit)
         = LIMIT_PIN

\* a retreat with inverted inputs: X and Z counted up, Y and C reset
C15_Witness ==
  /\ pc = "lb_done"
  /\ reverse_direction
  /\ settings.invert_mask_limit = {X_LIMIT_BIT, Y_LIMIT_BIT, 0, 7}
  /\ LIMIT_PIN = {Y_LIMIT_BIT, Z_LIMIT_BIT, 0}
  /\ limit_count = [a \in Axes |-> IF a \in {"X", "Z"} THEN 4 ELSE 0]

\* C16: at every point of a call, the counter and the flag of each requested
\* axis are those of a call that is given the same samples for that axis and
\* homes it alone, whatever the other axes read and whichever of them are
\* requested, active or stopped; so the axis stops in the same iteration and
\* is active at the pulse in the same iterations in any two such calls.
C16_AxisIndependent ==
  (InLoop \/ Returned) =>
    \A a \in Axes : requested[a] =>
       /\ limit_count[a] = alone_count[a]
       /\ axis[a] = alone_active[a]

\* X has stopped while Y, requested with it, is still counting and Z was
\* not requested
C16_Witness ==
  /\ pc = "hc_toggle"
  /\ requested = [a \in Axes |-> a \in {"X", "Y"}]
  /\ ~axis["X"] /\ alone_count["X"] = 10
  /\ axis["Y"] /\ limit_count["Y"] = 4
  /\ LimitBit("Z") \in limit_bits

\* C17: every counter is in 0..10 in every state; within a call the counter
\* of a stopped axis does not change and a stopped axis stays stopped.
C17_CountersBounded ==
  /\ [](\A a \in Axes : limit_count[a] \in 0..10)
  /\ [][InLoop => \A a \in Axes : ~axis[a] =>
              /\ limit_count'[a] = limit_count[a]
              /\ ~axis'[a]]_vars

\* X stopped with its counter at 10 while Y is still sampled
C17_Witness ==
  /\ pc = "hc_check"
  /\ requested["X"] /\ ~axis["X"] /\ ~at_start["X"] /\ limit_count["X"] = 10
  /\ at_start["Y"] /\ limit_count["Y"] = 7

\* C18: no requested axis has stopped while fewer than 10 samples have been
\* taken; an axis that stopped in iteration k was active at the pulse of
\* exactly k - 1 iterations, an active axis at the pulse of every iteration
\* so far, and when the call has returned every requested axis has been
\* active at 9 pulses or more.
C18_NineIterationsAtLeast ==
  (InLoop \/ Returned) =>
    \A a \in Axes : requested[a] =>
       /\ Len(hist) < 10 => axis[a]
       /\ axis[a] => /\ stopped_at[a] = 0
                     /\ pulse_iters[a] = Len(hist) - (IF pc = "hc_check" THEN 1 ELSE 0)
       /\ ~axis[a] => /\ stopped_at[a] >= 10
                      /\ pulse_iters[a] = stopped_at[a] - 1
       /\ Returned => pulse_iters[a] >= 9

\* the input of X read its stop level from the first sample on: X stopped in
\* iteration 10 after 9 pulses
C18_Witness ==
  /\ Returned
  /\ requested["X"]
  /\ Len(hist) = 10
  /\ \A i \in 1..10 : LimitBit("X") \notin hist[i]
  /\ stopped_at["X"] = 10
  /\ pulse_iters["X"] = 9
====
